---- MODULE Spec2Model ----
(***************************************************************************)
(* A model of rocksdb-client (src/src/lib.rs): the typed key-value access  *)
(* layer `RocksDB` over an embedded LSM engine.                            *)
(*                                                                         *)
(* A collection (column family) is the sequence of its records in the      *)
(* order the engine's iterator yields them: ascending lexicographic order  *)
(* of the raw key bytes.  Keys and stored values are byte strings, written *)
(* as sequences of numbers 0..255.  A typed value T is an unsigned integer *)
(* encoded with MessagePack; a negative number stands for a value whose    *)
(* Serialize implementation reports an error.                              *)
(***************************************************************************)
EXTENDS Integers, Sequences, FiniteSets, TLC

VARIABLES
    db,     \* the opened database: collections, their records, files on disk
    pre,    \* the database as it was when the last call began
    call,   \* the last call made on the handle and its arguments
    ret,    \* what the last call returned
    writer, \* the thread inside a batch call: its place and its WriteBatch
    reader, \* the last read another thread made while the writer ran
    scan,   \* the thread inside a range scan: its place, its keys, its results
    threads \* the threads that share the handle: each one's call and its place

vars == <<db, pre, call, ret, writer, reader, scan, threads>>

\* ------------------------------------------------------------------ bounds

\* The most records the database holds, all collections together.
MaxRecords == 3
\* The longest item list handed to batch_insert / batch_insert_cf.
MaxBatch == 2

\* ------------------------------------------------------------------ inputs

\* The keys "10", "2" and "1" as raw bytes (ASCII).
Keys == { <<49, 48>>, <<50>>, <<49>> }
\* The keys of the batch calls.
BatchKeys == { <<49, 48>>, <<50>> }

\* Typed values that encode (to a MessagePack fixint, and to a uint8).
GoodVals == {7, 200}
\* A value whose Serialize implementation fails.
BadVal == 0 - 1
Vals == GoodVals \cup {BadVal}

DefaultCf == "default"
CFNames == {DefaultCf, "users"}

\* ------------------------------------------------------------------- codec

\* MessagePackSerializer.serialize: rmp_serde::to_vec of an unsigned integer
\* (positive fixint, 0xcc uint8, 0xcd uint16), or the encode error.
Serialize(v) ==
    IF v < 0 THEN [ok |-> FALSE, bytes |-> <<>>]
    ELSE IF v < 128 THEN [ok |-> TRUE, bytes |-> <<v>>]
    ELSE IF v < 256 THEN [ok |-> TRUE, bytes |-> <<204, v>>]
    ELSE [ok |-> TRUE, bytes |-> <<205, v \div 256, v % 256>>]

\* MessagePackSerializer.deserialize: rmp_serde::from_slice to an unsigned
\* integer, or the decode error on any other input.
Deserialize(b) ==
    IF Len(b) = 1 /\ b[1] < 128 THEN [ok |-> TRUE, val |-> b[1]]
    ELSE IF Len(b) = 2 /\ b[1] = 204 THEN [ok |-> TRUE, val |-> b[2]]
    ELSE IF Len(b) = 3 /\ b[1] = 205 THEN [ok |-> TRUE, val |-> b[2] * 256 + b[3]]
    ELSE [ok |-> FALSE, val |-> 0]

\* Bytes no typed value encodes to (0xc1 is never used by MessagePack).
Garbage == <<193>>
\* The raw values handed to save.
Blobs == {Serialize(v).bytes : v \in GoodVals} \cup {Garbage}

\* ----------------------------------------------------------------- results

NoRet ==
    [kind |-> "None", val |-> 0, bytes |-> <<>>, key |-> <<>>, cf |-> "",
     flag |-> FALSE, list |-> <<>>]
\* Ok(())
OkUnit == [NoRet EXCEPT !.kind = "Ok"]
\* Ok(v), a decoded value
OkVal(v) == [NoRet EXCEPT !.kind = "Value", !.val = v]
\* Ok(Some(bytes)) and Ok(None) of find
OkSome(b) == [NoRet EXCEPT !.kind = "Some", !.bytes = b]
OkNone == [NoRet EXCEPT !.kind = "Absent"]
\* a plain bool
Bool(f) == [NoRet EXCEPT !.kind = "Bool", !.flag = f]
\* Ok(vec)
OkList(l) == [NoRet EXCEPT !.kind = "List", !.list = l]
KeyNotFound(k) == [NoRet EXCEPT !.kind = "KeyNotFound", !.key = k]
InvalidColumnFamily(c) == [NoRet EXCEPT !.kind = "InvalidColumnFamily", !.cf = c]
SerializationError == [NoRet EXCEPT !.kind = "SerializationError"]
DeserializationError == [NoRet EXCEPT !.kind = "DeserializationError"]
DbError == [NoRet EXCEPT !.kind = "DbError"]
InvalidQuery == [NoRet EXCEPT !.kind = "InvalidQuery"]
\* Ok(CFSize { total_bytes, .. })
OkSize(n) == [NoRet EXCEPT !.kind = "Size", !.val = n]
\* The call did not return: the thread panicked.
Panic == [NoRet EXCEPT !.kind = "Panic"]

IsErr(r) ==
    r.kind \in {"KeyNotFound", "InvalidColumnFamily", "SerializationError",
                "DeserializationError", "DbError", "InvalidQuery",
                "PropertyAccessError", "IoError"}

\* ------------------------------------------------------------------ engine

\* The engine's key order: lexicographic over the raw key bytes.
KeyLess(a, b) ==
    \E i \in 1..Len(b) :
        /\ \A j \in 1..(i - 1) : j <= Len(a) /\ a[j] = b[j]
        /\ (i > Len(a) \/ a[i] < b[i])

\* DB::get_cf on one collection: the stored bytes, if any.
EngineGet(coll, k) ==
    LET hits == {i \in 1..Len(coll) : coll[i][1] = k}
    IN  IF hits = {} THEN [found |-> FALSE, bytes |-> <<>>]
        ELSE [found |-> TRUE, bytes |-> coll[CHOOSE i \in hits : TRUE][2]]

\* DB::delete_cf on one collection: the record of k goes, if there is one.
EngineDelete(coll, k) ==
    LET Other(r) == r[1] # k
    IN  SelectSeq(coll, Other)

\* A put that forgets the records of the other keys.
EnginePutOnly(coll, k, b) == << <<k, b>> >>

\* DB::put_cf on one collection: the record of k is replaced or added, at
\* its place in the key order.
EnginePut(coll, k, b) ==
    LET rest == EngineDelete(coll, k)
        n == Cardinality({i \in 1..Len(rest) : KeyLess(rest[i][1], k)})
    IN  SubSeq(rest, 1, n) \o << <<k, b>> >> \o SubSeq(rest, n + 1, Len(rest))

\* DB::write of a WriteBatch of puts on one collection, each <<key, bytes>>:
\* the puts apply in the order they were added, all in one engine step.
RECURSIVE EngineWrite(_, _)
EngineWrite(coll, puts) ==
    IF puts = <<>> THEN coll
    ELSE EngineWrite(EnginePut(coll, Head(puts)[1], Head(puts)[2]), Tail(puts))

\* DB::cf_handle: the binding resolves a name through its own map of
\* handles.  The map holds the names the database was opened with (none for
\* DB::open and DB::open_default, which open the default collection without
\* a handle) and those created since.
EngineCfHandle(d, c) == c \in d.handles

\* DB::create_cf: the engine refuses a name it already has; otherwise the
\* collection is created empty and its handle is added to the map.
EngineCreateCf(d, name) ==
    IF name \in d.cfs THEN [ok |-> FALSE, db |-> d]
    ELSE [ok |-> TRUE,
          db |-> [d EXCEPT !.cfs = @ \cup {name},
                           !.handles = @ \cup {name},
                           !.store[name] = <<>>]]

\* A drop that takes the name away and leaves the records.
EngineDropCfKeep(d, name) ==
    IF name \notin d.handles THEN [ok |-> FALSE, db |-> d]
    ELSE IF name = DefaultCf
         THEN [ok |-> FALSE, db |-> [d EXCEPT !.handles = @ \ {name}]]
    ELSE [ok |-> TRUE,
          db |-> [d EXCEPT !.cfs = @ \ {name}, !.handles = @ \ {name}]]

\* DB::drop_cf: a name without a handle is an error.  The handle leaves the
\* map first; then the engine drops the collection with all its records,
\* and refuses to drop the default collection.
EngineDropCf(d, name) ==
    IF name \notin d.handles THEN [ok |-> FALSE, db |-> d]
    ELSE IF name = DefaultCf
         THEN [ok |-> FALSE, db |-> [d EXCEPT !.handles = @ \ {name}]]
    ELSE [ok |-> TRUE,
          db |-> [d EXCEPT !.cfs = @ \ {name},
                           !.handles = @ \ {name},
                           !.store[name] = <<>>]]

\* ------------------------------------------------------ the handle's calls
\* Each call maps the database to [db |-> the database after, ret |-> the
\* result returned].

Out(d, r) == [db |-> d, ret |-> r]

\* A lookup that finds a handle for every name.
cf_handle_any(d, cf) == OkUnit

\* cf_handle: the handle, or InvalidColumnFamily(cf).
cf_handle(d, cf) ==
    IF EngineCfHandle(d, cf) THEN OkUnit ELSE InvalidColumnFamily(cf)

save(d, k, v) ==
    Out([d EXCEPT !.store[DefaultCf] = EnginePut(@, k, v)], OkUnit)

find(d, k) ==
    LET g == EngineGet(d.store[DefaultCf], k)
    IN  Out(d, IF g.found THEN OkSome(g.bytes) ELSE OkNone)

\* A delete that removes the first record of the collection, whatever its key.
delete_first(d, k) ==
    Out([d EXCEPT !.store[DefaultCf] = IF @ = <<>> THEN @ ELSE Tail(@)], OkUnit)

delete(d, k) ==
    Out([d EXCEPT !.store[DefaultCf] = EngineDelete(@, k)], OkUnit)

\* A get that answers an absent key with the default value.
get_or_default(d, key) ==
    LET f == find(d, key).ret
    IN  IF f.kind = "Absent" THEN Out(d, OkVal(0))
        ELSE LET v == Deserialize(f.bytes)
             IN  Out(d, IF v.ok THEN OkVal(v.val) ELSE DeserializationError)

get(d, key) ==
    LET f == find(d, key).ret
    IN  IF f.kind = "Absent" THEN Out(d, KeyNotFound(key))
        ELSE LET v == Deserialize(f.bytes)
             IN  Out(d, IF v.ok THEN OkVal(v.val) ELSE DeserializationError)

\* An insert that keeps the value a key already has.
insert_if_absent(d, key, v) ==
    LET s == Serialize(v)
    IN  IF ~s.ok THEN Out(d, SerializationError)
        ELSE IF find(d, key).ret.kind = "Some" THEN Out(d, OkUnit)
        ELSE save(d, key, s.bytes)

insert(d, key, v) ==
    LET s == Serialize(v)
    IN  IF ~s.ok THEN Out(d, SerializationError)
        ELSE save(d, key, s.bytes)

\* The WriteBatch the loop of batch_insert builds: the items encoded in
\* order, or the first encode error.
RECURSIVE BuildBatch(_)
BuildBatch(items) ==
    IF items = <<>> THEN [ok |-> TRUE, puts |-> <<>>]
    ELSE LET s == Serialize(Head(items)[2])
             rest == BuildBatch(Tail(items))
         IN  IF ~s.ok THEN [ok |-> FALSE, puts |-> <<>>]
             ELSE IF ~rest.ok THEN rest
             ELSE [ok |-> TRUE, puts |-> << <<Head(items)[1], s.bytes>> >> \o rest.puts]

\* `wr` is whether the engine's write of the batch succeeds.
batch_insert(d, items, wr) ==
    LET batch == BuildBatch(items)
    IN  IF ~batch.ok THEN Out(d, SerializationError)
        ELSE IF ~wr THEN Out(d, DbError)
        ELSE Out([d EXCEPT !.store[DefaultCf] = EngineWrite(@, batch.puts)], OkUnit)

\* A batch insert that puts each item as soon as it is encoded.
RECURSIVE PutEach(_, _)
PutEach(coll, items) ==
    IF items = <<>> THEN [ok |-> TRUE, coll |-> coll]
    ELSE LET s == Serialize(Head(items)[2])
         IN  IF ~s.ok THEN [ok |-> FALSE, coll |-> coll]
             ELSE PutEach(EnginePut(coll, Head(items)[1], s.bytes), Tail(items))

batch_insert_cf_eager(d, cf, items, wr) ==
    LET h == cf_handle(d, cf)
    IN  IF IsErr(h) THEN Out(d, h)
        ELSE LET p == PutEach(d.store[cf], items)
             IN  Out([d EXCEPT !.store[cf] = p.coll],
                     IF ~p.ok THEN SerializationError
                     ELSE IF ~wr THEN DbError ELSE OkUnit)

batch_insert_cf(d, cf, items, wr) ==
    LET h == cf_handle(d, cf)
        batch == BuildBatch(items)
    IN  IF IsErr(h) THEN Out(d, h)
        ELSE IF ~batch.ok THEN Out(d, SerializationError)
        ELSE IF ~wr THEN Out(d, DbError)
        ELSE Out([d EXCEPT !.store[cf] = EngineWrite(@, batch.puts)], OkUnit)

cf_exists(d, name) == EngineCfHandle(d, name)

create_cf(d, name) ==
    IF ~cf_exists(d, name)
    THEN LET c == EngineCreateCf(d, name)
         IN  IF c.ok THEN Out(c.db, OkUnit) ELSE Out(c.db, DbError)
    ELSE Out(d, OkUnit)

\* An insert_cf that writes to the default collection.
insert_cf_default(d, cf, key, value) ==
    LET h == cf_handle(d, cf)
        s == Serialize(value)
    IN  IF IsErr(h) THEN Out(d, h)
        ELSE IF ~s.ok THEN Out(d, SerializationError)
        ELSE Out([d EXCEPT !.store[DefaultCf] = EnginePut(@, key, s.bytes)], OkUnit)

insert_cf(d, cf, key, value) ==
    LET h == cf_handle(d, cf)
        s == Serialize(value)
    IN  IF IsErr(h) THEN Out(d, h)
        ELSE IF ~s.ok THEN Out(d, SerializationError)
        ELSE Out([d EXCEPT !.store[cf] = EnginePut(@, key, s.bytes)], OkUnit)

get_cf(d, cf, key) ==
    LET h == cf_handle(d, cf)
    IN  IF IsErr(h) THEN Out(d, h)
        ELSE LET g == EngineGet(d.store[cf], key)
             IN  IF ~g.found THEN Out(d, KeyNotFound(key))
                 ELSE LET v == Deserialize(g.bytes)
                      IN  Out(d, IF v.ok THEN OkVal(v.val) ELSE DeserializationError)

\* A delete_cf without the read before the delete.
delete_cf_blind(d, cf, key) ==
    LET h == cf_handle(d, cf)
    IN  IF IsErr(h) THEN Out(d, h)
        ELSE Out([d EXCEPT !.store[cf] = EngineDelete(@, key)], OkUnit)

delete_cf(d, cf, key) ==
    LET h == cf_handle(d, cf)
    IN  IF IsErr(h) THEN Out(d, h)
        ELSE IF ~EngineGet(d.store[cf], key).found THEN Out(d, KeyNotFound(key))
        ELSE Out([d EXCEPT !.store[cf] = EngineDelete(@, key)], OkUnit)

drop_cf(d, cf) ==
    LET e == EngineDropCf(d, cf)
    IN  Out(e.db, IF e.ok THEN OkUnit ELSE DbError)


\* ------------------------------------------------------------- range scans

\* usize::MAX.  The model's integers are narrower than the program's: this
\* number stands for 2^64 - 1, and Huge for every usize from 10^9 up to
\* 2^64 - 2 (all of them beyond any collection's length).
UsizeMax == 2147483647
Huge == UsizeMax - 1
\* "18446744073709551615", the decimal digits of usize::MAX.
UsizeMaxStr == <<49, 56, 52, 52, 54, 55, 52, 52, 48, 55, 51, 55, 48, 57, 53, 53,
                 49, 54, 49, 53>>

IsDigit(b) == b >= 48 /\ b <= 57

RECURSIVE DigitsValue(_)
DigitsValue(s) ==
    IF s = <<>> THEN 0
    ELSE DigitsValue(SubSeq(s, 1, Len(s) - 1)) * 10 + (s[Len(s)] - 48)

\* Whether digit string a is a greater number than digit string b of the
\* same length.
DigitsGreater(a, b) ==
    \E i \in 1..Len(a) :
        /\ \A j \in 1..(i - 1) : a[j] = b[j]
        /\ a[i] > b[i]

\* str::parse::<usize>: an optional '+' and one or more decimal digits, no
\* greater than usize::MAX; anything else is an error.
ParseUsize(s) ==
    LET body == IF s # <<>> /\ s[1] = 43 THEN Tail(s) ELSE s
        big == Len(UsizeMaxStr)
    IN  IF body = <<>> \/ \E i \in 1..Len(body) : ~IsDigit(body[i])
        THEN [ok |-> FALSE, n |-> 0]
        ELSE IF Len(body) > big \/ (Len(body) = big /\ DigitsGreater(body, UsizeMaxStr))
        THEN [ok |-> FALSE, n |-> 0]
        ELSE IF body = UsizeMaxStr THEN [ok |-> TRUE, n |-> UsizeMax]
        ELSE IF Len(body) > 9 THEN [ok |-> TRUE, n |-> Huge]
        ELSE [ok |-> TRUE, n |-> DigitsValue(body)]

Min(a, b) == IF a <= b THEN a ELSE b

\* to_idx + 1 on usize: beyond usize::MAX the addition panics in a build
\* with overflow checks and wraps to 0 in one without.
AddOne(n, build) ==
    IF n < UsizeMax THEN [ok |-> TRUE, n |-> n + 1]
    ELSE IF build = "debug" THEN [ok |-> FALSE, n |-> 0]
    ELSE [ok |-> TRUE, n |-> 0]

\* A reverse that leaves the keys in their order.
ReverseNot(s) == s

Reverse(s) == [i \in 1..Len(s) |-> s[Len(s) + 1 - i]]

\* DB::iterator_cf(IteratorMode::Start) mapped to the keys.
AllKeysOf(coll) == [i \in 1..Len(coll) |-> coll[i][1]]

\* A conversion that loses the key.
Utf8LossyNone(k) == <<>>

\* String::from_utf8_lossy of a key: ASCII bytes stand, a byte that is not
\* valid UTF-8 on its own becomes U+FFFD (EF BF BD).
RECURSIVE Utf8Lossy(_)
Utf8Lossy(k) ==
    IF k = <<>> THEN <<>>
    ELSE (IF Head(k) < 128 THEN <<Head(k)>> ELSE <<239, 191, 189>>) \o Utf8Lossy(Tail(k))

\* The window of keys the scan fetches, or the panic of the addition or of
\* the slice all_keys[from_idx..to_idx] when from_idx > to_idx.
KeysToFetch(all_keys, from, to, direction, build) ==
    LET pf == ParseUsize(from)
        pt == ParseUsize(to)
        from0 == IF pf.ok THEN pf.n ELSE 0
        to0 == IF pt.ok THEN pt.n ELSE Len(all_keys)
        from_idx == Min(from0, Len(all_keys))
        inc == AddOne(to0, build)
        to_idx == Min(inc.n, Len(all_keys))
    IN  IF ~inc.ok \/ from_idx > to_idx THEN [ok |-> FALSE, keys |-> <<>>]
        ELSE LET window == SubSeq(all_keys, from_idx + 1, to_idx)
             IN  [ok |-> TRUE,
                  keys |-> IF direction = "Forward" THEN window ELSE Reverse(window)]

\* The fetch loop: each key is read again and decoded; a key that is gone is
\* skipped, bytes that do not decode end the call.  with_keys pairs each
\* value with its key.
RECURSIVE FetchAll(_, _, _)
FetchAll(coll, keys, with_keys) ==
    IF keys = <<>> THEN [ok |-> TRUE, list |-> <<>>]
    ELSE LET g == EngineGet(coll, Head(keys))
             rest == FetchAll(coll, Tail(keys), with_keys)
         IN  IF ~g.found THEN rest
             ELSE LET v == Deserialize(g.bytes)
                  IN  IF ~v.ok THEN [ok |-> FALSE, list |-> <<>>]
                      ELSE IF ~rest.ok THEN rest
                      ELSE [ok |-> TRUE,
                            list |-> << IF with_keys
                                        THEN <<Utf8Lossy(Head(keys)), v.val>>
                                        ELSE v.val >> \o rest.list]

RangeScan(d, cf, from, to, limit, direction, build, with_keys) ==
    LET h == cf_handle(d, cf)
    IN  IF IsErr(h) THEN Out(d, h)
        ELSE LET w == KeysToFetch(AllKeysOf(d.store[cf]), from, to, direction, build)
             IN  IF ~w.ok THEN Out(d, Panic)
                 ELSE LET r == FetchAll(d.store[cf],
                                        SubSeq(w.keys, 1, Min(limit, Len(w.keys))),
                                        with_keys)
                      IN  Out(d, IF r.ok THEN OkList(r.list) ELSE DeserializationError)

get_range_cf(d, cf, from, to, limit, direction, build) ==
    RangeScan(d, cf, from, to, limit, direction, build, FALSE)

get_range_cf_with_keys(d, cf, from, to, limit, direction, build) ==
    RangeScan(d, cf, from, to, limit, direction, build, TRUE)

\* ----------------------------------------------------------------- queries

\* A path expression: "$[*]" (wildcard), "$[a]" (index), "$[a,b]" (union),
\* "$[a:b]" (slice), "$[a:]" (tail), "$[?@ > a]" (filter), or text that is
\* no path expression (malformed).
Query(kind, a, b) == [kind |-> kind, a |-> a, b |-> b]

\* The position (from 1) a JSONPath index names in an array of n elements,
\* 0 when it names none.
IndexPos(i, n) ==
    IF i >= 0 THEN (IF i < n THEN i + 1 ELSE 0)
    ELSE (IF n + i >= 0 THEN n + i + 1 ELSE 0)

\* A slice bound normalised into 0..n.
SliceBound(i, n) ==
    LET x == IF i >= 0 THEN i ELSE n + i
    IN  IF x < 0 THEN 0 ELSE Min(x, n)

\* A query that selects every position, whatever the expression.
SelectAll(jsons, q) == [i \in 1..Len(jsons) |-> i]

\* JsonPath::query on the array of the records' JSON values: the positions
\* selected, in the order the expression yields them.
Select(jsons, q) ==
    LET n == Len(jsons)
        All == [i \in 1..n |-> i]
        Pos(i) == IF IndexPos(i, n) = 0 THEN <<>> ELSE <<IndexPos(i, n)>>
        Greater(i) == jsons[i].number > q.a
    IN  CASE q.kind = "wildcard" -> All
          [] q.kind = "index" -> Pos(q.a)
          [] q.kind = "union" -> Pos(q.a) \o Pos(q.b)
          [] q.kind = "slice" -> SubSeq(All, SliceBound(q.a, n) + 1, SliceBound(q.b, n))
          [] q.kind = "tail" -> SubSeq(All, SliceBound(q.a, n) + 1, n)
          [] q.kind = "filter" -> SelectSeq(All, Greater)
          [] OTHER -> <<>>

\* Vec::swap_remove(i), i counted from 1: the last element takes the place
\* of the one removed.
SwapRemove(v, i) ==
    IF i = Len(v) THEN SubSeq(v, 1, Len(v) - 1)
    ELSE SubSeq([v EXCEPT ![i] = v[Len(v)]], 1, Len(v) - 1)

\* The position of the first of `jsons` equal to m, 0 when there is none.
FirstEqual(jsons, m) ==
    IF \A i \in 1..Len(jsons) : jsons[i] # m THEN 0
    ELSE CHOOSE i \in 1..Len(jsons) :
            /\ jsons[i] = m
            /\ \A j \in 1..(i - 1) : jsons[j] # m

\* A loop that stops after the first match.
TakeFirstMatch(matches, jsons, docs) ==
    IF matches = <<>> \/ FirstEqual(jsons, Head(matches)) = 0 THEN <<>>
    ELSE <<docs[FirstEqual(jsons, Head(matches))]>>

\* The loop over the matches: each match takes the first remaining document
\* whose JSON value equals it; a match that finds none is dropped.
RECURSIVE TakeMatches(_, _, _)
TakeMatches(matches, jsons, docs) ==
    IF matches = <<>> THEN <<>>
    ELSE IF FirstEqual(jsons, Head(matches)) = 0
    THEN TakeMatches(Tail(matches), jsons, docs)
    ELSE <<docs[FirstEqual(jsons, Head(matches))]>> \o
         TakeMatches(Tail(matches),
                     SwapRemove(jsons, FirstEqual(jsons, Head(matches))),
                     SwapRemove(docs, FirstEqual(jsons, Head(matches))))

\* The scan that collects the documents: every record decoded in iterator
\* order, or the first decode error.
RECURSIVE Collect(_)
Collect(coll) ==
    IF coll = <<>> THEN [ok |-> TRUE, docs |-> <<>>]
    ELSE LET v == Deserialize(Head(coll)[2])
             rest == Collect(Tail(coll))
         IN  IF ~v.ok THEN [ok |-> FALSE, docs |-> <<>>]
             ELSE IF ~rest.ok THEN rest
             ELSE [ok |-> TRUE, docs |-> << <<Head(coll)[1], v.val>> >> \o rest.docs]

\* serde_json::to_value of an unsigned integer: the JSON number.
ToJson(v) == [number |-> v]

\* The JSON array the query runs on: the documents' JSON values in scan order.
RECURSIVE JsonArray(_)
JsonArray(docs) ==
    IF docs = <<>> THEN <<>> ELSE <<ToJson(Head(docs)[2])>> \o JsonArray(Tail(docs))

\* The values the query yields, one for each selected position.
RECURSIVE Matched(_, _)
Matched(jsons, sel) ==
    IF sel = <<>> THEN <<>> ELSE <<jsons[Head(sel)]>> \o Matched(jsons, Tail(sel))

\* What is pushed for each document taken: the value, or the key (decoded
\* leniently) with the value.
RECURSIVE Results(_, _)
Results(taken, with_keys) ==
    IF taken = <<>> THEN <<>>
    ELSE << IF with_keys THEN <<Utf8Lossy(Head(taken)[1]), Head(taken)[2]>>
            ELSE Head(taken)[2] >> \o Results(Tail(taken), with_keys)

QueryScan(d, cf, q, with_keys) ==
    LET h == cf_handle(d, cf)
    IN  IF IsErr(h) THEN Out(d, h)
        ELSE LET c == Collect(d.store[cf])
             IN  IF ~c.ok THEN Out(d, DeserializationError)
                 ELSE IF q.kind = "malformed" THEN Out(d, InvalidQuery)
                 ELSE Out(d, OkList(Results(
                          TakeMatches(Matched(JsonArray(c.docs), Select(JsonArray(c.docs), q)),
                                      JsonArray(c.docs), c.docs),
                          with_keys)))

query_cf(d, cf, q) == QueryScan(d, cf, q, FALSE)

query_cf_with_keys(d, cf, q) == QueryScan(d, cf, q, TRUE)

\* ------------------------------------------------- backup, restore and size

\* A file on disk: none, a file that SstFileWriter has opened and not
\* finished, or a finished SST with its records in key order.
NoFile == [state |-> "none", recs |-> <<>>]
OpenedFile == [state |-> "opened", recs |-> <<>>]
SstFile(recs) == [state |-> "sst", recs |-> recs]

\* A writer that loses every record after the first.
SstFinishFirst(recs) ==
    IF recs = <<>> THEN [ok |-> FALSE, file |-> OpenedFile]
    ELSE [ok |-> TRUE, file |-> SstFile(<<Head(recs)>>)]

\* SstFileWriter::finish: the engine refuses to finish a file without
\* entries, and leaves the opened file behind.
SstFinish(recs) ==
    IF recs = <<>> THEN [ok |-> FALSE, file |-> OpenedFile]
    ELSE [ok |-> TRUE, file |-> SstFile(recs)]

create_backup(d, cf, path) ==
    LET h == cf_handle(d, cf)
    IN  IF IsErr(h) THEN Out(d, h)
        ELSE LET f == SstFinish(d.store[cf])
             IN  Out([d EXCEPT !.files[path] = f.file],
                     IF f.ok THEN OkUnit ELSE DbError)

\* An ingest in which the records the collection already holds win.
EngineIngestUnder(coll, file) ==
    IF file.state # "sst" THEN [ok |-> FALSE, coll |-> coll]
    ELSE [ok |-> TRUE, coll |-> EngineWrite(file.recs, coll)]

\* DB::ingest_external_file_cf_opts with the default options: a missing or
\* unfinished file is an error; the file's records are added to the
\* collection in one step, over the records of the same keys, and the file
\* stays where it is.
EngineIngest(coll, file) ==
    IF file.state # "sst" THEN [ok |-> FALSE, coll |-> coll]
    ELSE [ok |-> TRUE, coll |-> EngineWrite(coll, file.recs)]

restore_backup(d, cf, path) ==
    LET h == cf_handle(d, cf)
    IN  IF IsErr(h) THEN Out(d, h)
        ELSE LET g == EngineIngest(d.store[cf], d.files[path])
             IN  Out([d EXCEPT !.store[cf] = g.coll],
                     IF g.ok THEN OkUnit ELSE DbError)

\* The bytes of a collection's records, which the engine reports as the
\* size of its memtables; the records of this model are never flushed to
\* SST or blob files.
RECURSIVE MemTableBytes(_)
MemTableBytes(coll) ==
    IF coll = <<>> THEN 0
    ELSE Len(Head(coll)[1]) + Len(Head(coll)[2]) + MemTableBytes(Tail(coll))

get_cf_size(d, cf) ==
    LET h == cf_handle(d, cf)
        live_sst_size == 0
        mem_table_size == IF IsErr(h) THEN 0 ELSE MemTableBytes(d.store[cf])
        blob_size == 0
    IN  IF IsErr(h) THEN Out(d, h)
        ELSE Out(d, OkSize(live_sst_size + mem_table_size + blob_size))

\* ------------------------------------------------------------------ actions

NoCall ==
    [op |-> "open", cf |-> "", key |-> <<>>, val |-> 0, bytes |-> <<>>,
     items |-> <<>>, wr |-> TRUE, from |-> <<>>, to |-> <<>>, limit |-> 0,
     direction |-> "Forward", build |-> "release",
     query |-> [kind |-> "none", a |-> 0, b |-> 0], path |-> ""]

\* The number of records in the database.
RECURSIVE Count(_, _)
Count(d, names) ==
    IF names = {} THEN 0
    ELSE LET c == CHOOSE x \in names : TRUE
         IN  Len(d.store[c]) + Count(d, names \ {c})

Records(d) == Count(d, CFNames)

\* One call on the handle: `c` names it, `o` is its outcome on the database.
Do(c, o) ==
    /\ call = NoCall
    /\ pre' = db
    /\ call' = c
    /\ db' = o.db
    /\ ret' = o.ret
    /\ Records(db') <= MaxRecords
    /\ UNCHANGED <<writer, reader, scan, threads>>

\* The caller takes the result; the handle keeps no trace of the call.
Return ==
    /\ call # NoCall
    /\ call' = NoCall
    /\ ret' = OkUnit
    /\ pre' = db
    /\ UNCHANGED <<db, writer, reader, scan, threads>>

CallSave ==
    \E k \in Keys, b \in Blobs :
        Do([NoCall EXCEPT !.op = "save", !.cf = DefaultCf, !.key = k, !.bytes = b],
           save(db, k, b))

CallFind ==
    \E k \in Keys :
        Do([NoCall EXCEPT !.op = "find", !.cf = DefaultCf, !.key = k], find(db, k))

CallDelete ==
    \E k \in Keys :
        Do([NoCall EXCEPT !.op = "delete", !.cf = DefaultCf, !.key = k],
           delete(db, k))

CallGet ==
    \E k \in Keys :
        Do([NoCall EXCEPT !.op = "get", !.cf = DefaultCf, !.key = k], get(db, k))

CallInsert ==
    \E k \in Keys, v \in Vals :
        Do([NoCall EXCEPT !.op = "insert", !.cf = DefaultCf, !.key = k, !.val = v],
           insert(db, k, v))

\* The item lists handed to the batch calls.
Pairs == BatchKeys \X Vals
BatchesOf(pairs) ==
    UNION {[1..n -> pairs] : n \in 0..MaxBatch}
Batches == BatchesOf(Pairs)

CallBatchInsert ==
    \E items \in Batches, wr \in BOOLEAN :
        Do([NoCall EXCEPT !.op = "batch_insert", !.cf = DefaultCf,
                          !.items = items, !.wr = wr],
           batch_insert(db, items, wr))

BatchInsertCfOf(batches) ==
    \E cf \in CFNames, items \in batches, wr \in BOOLEAN :
        Do([NoCall EXCEPT !.op = "batch_insert_cf", !.cf = cf,
                          !.items = items, !.wr = wr],
           batch_insert_cf(db, cf, items, wr))

CallBatchInsertCf == BatchInsertCfOf(Batches)

CallCreateCf ==
    \E name \in CFNames :
        Do([NoCall EXCEPT !.op = "create_cf", !.cf = name], create_cf(db, name))

CallCfExists ==
    \E name \in CFNames :
        Do([NoCall EXCEPT !.op = "cf_exists", !.cf = name],
           Out(db, Bool(cf_exists(db, name))))

InsertCfOf(keys) ==
    \E cf \in CFNames, k \in keys, v \in Vals :
        Do([NoCall EXCEPT !.op = "insert_cf", !.cf = cf, !.key = k, !.val = v],
           insert_cf(db, cf, k, v))

CallInsertCf == InsertCfOf(Keys)

CallGetCf ==
    \E cf \in CFNames, k \in Keys :
        Do([NoCall EXCEPT !.op = "get_cf", !.cf = cf, !.key = k], get_cf(db, cf, k))

CallDeleteCf ==
    \E cf \in CFNames, k \in Keys :
        Do([NoCall EXCEPT !.op = "delete_cf", !.cf = cf, !.key = k],
           delete_cf(db, cf, k))

CallDropCf ==
    \E cf \in CFNames :
        Do([NoCall EXCEPT !.op = "drop_cf", !.cf = cf], drop_cf(db, cf))

\* The arguments of the range scans: from and to are "0", "1", "2", "x" and
\* "0", "1", "999", "x", usize::MAX; the build matters only for the last.
Froms == { <<48>>, <<49>>, <<50>>, <<120>> }
Tos == { <<48>>, <<49>>, <<57, 57, 57>>, <<120>>, UsizeMaxStr }
Limits == {0, 1, 2, 1000}
Directions == {"Forward", "Reverse"}
Builds(to) == IF to = UsizeMaxStr THEN {"debug", "release"} ELSE {"release"}

GetRangeCfOf(froms, tos, limits) ==
    \E cf \in CFNames, from \in froms, to \in tos, limit \in limits,
       direction \in Directions :
        \E build \in Builds(to) :
            Do([NoCall EXCEPT !.op = "get_range_cf", !.cf = cf, !.from = from,
                              !.to = to, !.limit = limit,
                              !.direction = direction, !.build = build],
               get_range_cf(db, cf, from, to, limit, direction, build))

CallGetRangeCf == GetRangeCfOf(Froms, Tos, Limits)

GetRangeCfWithKeysOf(froms, tos, limits) ==
    \E cf \in CFNames, from \in froms, to \in tos, limit \in limits,
       direction \in Directions :
        \E build \in Builds(to) :
            Do([NoCall EXCEPT !.op = "get_range_cf_with_keys", !.cf = cf,
                              !.from = from, !.to = to, !.limit = limit,
                              !.direction = direction, !.build = build],
               get_range_cf_with_keys(db, cf, from, to, limit, direction, build))

CallGetRangeCfWithKeys == GetRangeCfWithKeysOf(Froms, Tos, Limits)

\* The expressions of the queries: "$[*]", "$[0]", "$[-1]", "$[0,2]",
\* "$[0:2]", "$[1:]", "$[?@ > 100]", "$[?@ > 5]" and a malformed one.
Queries ==
    { Query("wildcard", 0, 0), Query("index", 0, 0), Query("index", 0 - 1, 0),
      Query("union", 0, 2), Query("slice", 0, 2), Query("tail", 1, 0),
      Query("filter", 100, 0), Query("filter", 5, 0), Query("malformed", 0, 0) }

QueryCfOf(queries) ==
    \E cf \in CFNames, q \in queries :
        Do([NoCall EXCEPT !.op = "query_cf", !.cf = cf, !.query = q],
           query_cf(db, cf, q))

CallQueryCf == QueryCfOf(Queries)

QueryCfWithKeysOf(queries) ==
    \E cf \in CFNames, q \in queries :
        Do([NoCall EXCEPT !.op = "query_cf_with_keys", !.cf = cf, !.query = q],
           query_cf_with_keys(db, cf, q))

CallQueryCfWithKeys == QueryCfWithKeysOf(Queries)

\* The backup file.
Paths == {"rooms.sst"}

CallCreateBackup ==
    \E cf \in CFNames, path \in Paths :
        Do([NoCall EXCEPT !.op = "create_backup", !.cf = cf, !.path = path],
           create_backup(db, cf, path))

CallRestoreBackup ==
    \E cf \in CFNames, path \in Paths :
        Do([NoCall EXCEPT !.op = "restore_backup", !.cf = cf, !.path = path],
           restore_backup(db, cf, path))

CallGetCfSize ==
    \E cf \in CFNames :
        Do([NoCall EXCEPT !.op = "get_cf_size", !.cf = cf], get_cf_size(db, cf))

\* ------------------------------------------------------------------ threads

\* The handle is shared between threads.  One thread runs a batch call a
\* step at a time: the handle lookup, one step for each item of the loop,
\* the engine's write, the return.  Another thread reads between the steps.
IdleWriter == [pc |-> "idle", i |-> 1, batch |-> <<>>]
NoRead == [op |-> "none", cf |-> DefaultCf, key |-> <<>>, ret |-> OkUnit]

\* A put that reaches the collection as soon as it is added to the batch.
WriteBatchPutThrough(d, cf, b, k, bytes) ==
    [db |-> [d EXCEPT !.store[cf] = EnginePut(@, k, bytes)],
     batch |-> Append(b, <<k, bytes>>)]

\* WriteBatch::put and put_cf: the put is kept in the batch, the database
\* is not touched.
WriteBatchPut(d, cf, b, k, bytes) ==
    [db |-> d, batch |-> Append(b, <<k, bytes>>)]

\* The call begins: batch_insert_cf looks the handle up, batch_insert has
\* nothing to look up; both start with an empty WriteBatch.
BatchBegin(op, cf, items) ==
    LET h == IF op = "batch_insert_cf" THEN cf_handle(db, cf) ELSE OkUnit
    IN  /\ call = NoCall
        /\ writer.pc = "idle"
        /\ pre' = db
        /\ call' = [NoCall EXCEPT !.op = op, !.cf = cf, !.items = items]
        /\ ret' = h
        /\ writer' = [pc |-> IF IsErr(h) THEN "done" ELSE "build",
                      i |-> 1, batch |-> <<>>]
        /\ reader' = NoRead
        /\ UNCHANGED <<db, scan, threads>>

\* The item lists of the threaded batch calls: "10" with 7 or 200, "2" with
\* 200 or a value that does not encode.
ThreadPairs == { <<<<49, 48>>, 7>>, <<<<49, 48>>, 200>>, <<<<50>>, 200>>, <<<<50>>, BadVal>> }

BeginBatchInsert ==
    \E items \in BatchesOf(ThreadPairs) :
        BatchBegin("batch_insert", DefaultCf, items)

BeginBatchInsertCf ==
    \E cf \in CFNames, items \in BatchesOf(ThreadPairs) :
        BatchBegin("batch_insert_cf", cf, items)

\* One turn of the loop: the item is encoded and put in the batch, or the
\* encode error ends the call.
BatchPut ==
    /\ writer.pc = "build"
    /\ writer.i <= Len(call.items)
    /\ LET item == call.items[writer.i]
           s == Serialize(item[2])
           p == WriteBatchPut(db, call.cf, writer.batch, item[1], s.bytes)
       IN  IF ~s.ok
           THEN /\ writer' = [writer EXCEPT !.pc = "done"]
                /\ ret' = SerializationError
                /\ UNCHANGED db
           ELSE /\ writer' = [writer EXCEPT !.i = @ + 1, !.batch = p.batch]
                /\ db' = p.db
                /\ UNCHANGED ret
    /\ reader' = NoRead
    /\ UNCHANGED <<pre, call, scan, threads>>

\* DB::write: the engine applies the whole batch in one step, or fails and
\* applies nothing.
BatchWrite ==
    /\ writer.pc = "build"
    /\ writer.i > Len(call.items)
    /\ \E wr \in BOOLEAN :
        /\ db' = IF wr THEN [db EXCEPT !.store[call.cf] = EngineWrite(@, writer.batch)]
                 ELSE db
        /\ ret' = IF wr THEN OkUnit ELSE DbError
    /\ writer' = [writer EXCEPT !.pc = "done"]
    /\ reader' = NoRead
    /\ UNCHANGED <<pre, call, scan, threads>>

\* The batch call returns to its caller.
BatchReturn ==
    /\ writer.pc = "done"
    /\ writer' = IdleWriter
    /\ call' = NoCall
    /\ ret' = OkUnit
    /\ pre' = db
    /\ reader' = NoRead
    /\ UNCHANGED <<db, scan, threads>>

\* A read by the other thread, at any moment.
Read(op, cf, k, o) ==
    /\ reader' = [op |-> op, cf |-> cf, key |-> k, ret |-> o.ret]
    /\ UNCHANGED <<db, pre, call, ret, writer, scan, threads>>

ReaderFind == \E k \in BatchKeys : Read("find", DefaultCf, k, find(db, k))

ReaderGet == \E k \in BatchKeys : Read("get", DefaultCf, k, get(db, k))

ReaderGetCf ==
    \E cf \in CFNames, k \in BatchKeys : Read("get_cf", cf, k, get_cf(db, cf, k))

\* One thread runs a range scan a step at a time: the handle lookup with
\* the iterator's pass over the keys and the cut of the window, one step for
\* each key of the fetch loop, the return.  Another thread writes to the
\* collections between the steps.
IdleScan == [pc |-> "idle", keys |-> <<>>, i |-> 1, results |-> <<>>]

\* The call begins: the iterator reads the keys of the collection as they
\* are at this moment, and the window is cut from them.
ScanBegin(op, cf, from, to, limit, direction, build) ==
    LET h == cf_handle(db, cf)
        w == KeysToFetch(AllKeysOf(db.store[cf]), from, to, direction, build)
    IN  /\ call = NoCall
        /\ scan.pc = "idle"
        /\ pre' = db
        /\ call' = [NoCall EXCEPT !.op = op, !.cf = cf, !.from = from, !.to = to,
                                  !.limit = limit, !.direction = direction,
                                  !.build = build]
        /\ ret' = IF IsErr(h) THEN h ELSE IF ~w.ok THEN Panic ELSE OkUnit
        /\ scan' = IF IsErr(h) \/ ~w.ok THEN [IdleScan EXCEPT !.pc = "done"]
                   ELSE [IdleScan EXCEPT
                            !.pc = "fetch",
                            !.keys = SubSeq(w.keys, 1, Min(limit, Len(w.keys)))]
        /\ UNCHANGED <<db, writer, reader, threads>>

\* The scans of the threaded model: the whole collection, or its first
\* position only, in either direction.
BeginGetRangeCf ==
    \E cf \in CFNames, to \in {<<48>>, <<120>>}, direction \in Directions :
        ScanBegin("get_range_cf", cf, <<48>>, to, 1000, direction, "release")

BeginGetRangeCfWithKeys ==
    \E cf \in CFNames, to \in {<<48>>, <<120>>}, direction \in Directions :
        ScanBegin("get_range_cf_with_keys", cf, <<48>>, to, 1000, direction, "release")

\* One turn of the fetch loop: the key is read in the database as it is
\* now; a key that is gone is skipped, bytes that do not decode end the call.
ScanFetch ==
    /\ scan.pc = "fetch"
    /\ scan.i <= Len(scan.keys)
    /\ LET key == scan.keys[scan.i]
           g == EngineGet(db.store[call.cf], key)
           v == Deserialize(g.bytes)
           item == IF call.op = "get_range_cf_with_keys"
                   THEN <<Utf8Lossy(key), v.val>> ELSE v.val
       IN  IF g.found /\ ~v.ok
           THEN /\ scan' = [scan EXCEPT !.pc = "done"]
                /\ ret' = DeserializationError
           ELSE /\ scan' = [scan EXCEPT
                              !.i = @ + 1,
                              !.results = IF g.found THEN Append(@, item) ELSE @]
                /\ UNCHANGED ret
    /\ UNCHANGED <<db, pre, call, writer, reader, threads>>

\* The loop is over: Ok(results).
ScanFinish ==
    /\ scan.pc = "fetch"
    /\ scan.i > Len(scan.keys)
    /\ scan' = [scan EXCEPT !.pc = "done"]
    /\ ret' = OkList(scan.results)
    /\ UNCHANGED <<db, pre, call, writer, reader, threads>>

\* The scan returns to its caller.
ScanReturn ==
    /\ scan.pc = "done"
    /\ scan' = IdleScan
    /\ call' = NoCall
    /\ ret' = OkUnit
    /\ pre' = db
    /\ UNCHANGED <<db, writer, reader, threads>>

\* A call of the other thread, which runs between two steps of the scan.
Other(o) ==
    /\ db' = o.db
    /\ UNCHANGED <<pre, call, ret, writer, reader, scan, threads>>

\* The other thread writes the keys "10" and "2" of the collection "users".
OtherInsertCf ==
    \E k \in BatchKeys, v \in GoodVals : Other(insert_cf(db, "users", k, v))

OtherDeleteCf ==
    \E k \in BatchKeys : Other(delete_cf(db, "users", k))

\* ------------------------------------------------- threads sharing a handle

\* RocksDB is Clone over an Arc<DB>: two threads hold the same database.
\* Each makes one call at a time, a step for every access to the engine, and
\* the steps of the two interleave freely.  The threads are joined when
\* both are through; `pre` is the database as it was when the first of them
\* began.
Threads == {1, 2}

IdleThread ==
    [pc |-> "idle", op |-> "none", cf |-> "", key |-> <<>>, val |-> 0,
     bytes |-> <<>>, ret |-> OkUnit]

\* No thread is inside a call or waits to be joined.
Quiet == \A t \in Threads : threads[t].pc = "idle"

\* The records the calls in flight may still add.
PendingPuts == Cardinality({t \in Threads : threads[t].pc = "put"})

\* Thread t begins a call; the call's first step decides where it goes on
\* (pc) and what it has to return already (r).
ThreadBegin(t, c, pc, r) ==
    /\ call = NoCall
    /\ threads[t].pc = "idle"
    /\ threads' = [threads EXCEPT ![t] = [c EXCEPT !.pc = pc, !.ret = r]]
    /\ pre' = IF Quiet THEN db ELSE pre
    /\ UNCHANGED <<db, call, ret, writer, reader, scan>>

\* Thread t takes a step that leaves the database d behind and the thread
\* at pc with the result r.
ThreadStep(t, d, pc, r) ==
    /\ db' = d
    /\ threads' = [threads EXCEPT ![t].pc = pc, ![t].ret = r]
    /\ UNCHANGED <<pre, call, ret, writer, reader, scan>>

\* The keys each thread writes: "1" and "10" for the first, "2" for the
\* second.
ThreadKeys(t) == IF t = 1 THEN { <<49>>, <<49, 48>> } ELSE { <<50>> }

\* insert_cf, first part: the handle lookup and the encoding of the value.
InsertCfBegin ==
    \E t \in Threads : \E cf \in CFNames, k \in ThreadKeys(t), v \in GoodVals :
        LET h == cf_handle(db, cf)
            s == Serialize(v)
        IN  /\ Records(db) + PendingPuts < MaxRecords
            /\ ThreadBegin(t, [IdleThread EXCEPT !.op = "insert_cf", !.cf = cf,
                                                 !.key = k, !.val = v,
                                                 !.bytes = s.bytes],
                           IF IsErr(h) \/ ~s.ok THEN "done" ELSE "put",
                           IF IsErr(h) THEN h
                           ELSE IF ~s.ok THEN SerializationError ELSE OkUnit)

\* insert_cf, second part: DB::put_cf.
InsertCfPut ==
    \E t \in Threads :
        /\ threads[t].pc = "put"
        /\ ThreadStep(t, [db EXCEPT !.store[threads[t].cf] =
                                      EnginePut(@, threads[t].key, threads[t].bytes)],
                      "done", OkUnit)

\* delete_cf, first part: the handle lookup.
DeleteCfBegin ==
    \E t \in Threads, cf \in CFNames, k \in BatchKeys :
        LET h == cf_handle(db, cf)
        IN  ThreadBegin(t, [IdleThread EXCEPT !.op = "delete_cf", !.cf = cf, !.key = k],
                        IF IsErr(h) THEN "done" ELSE "get",
                        IF IsErr(h) THEN h ELSE OkUnit)

\* delete_cf, second part: DB::get_cf, and KeyNotFound when the key is not
\* there.
DeleteCfGet ==
    \E t \in Threads :
        /\ threads[t].pc = "get"
        /\ IF EngineGet(db.store[threads[t].cf], threads[t].key).found
           THEN ThreadStep(t, db, "delete", OkUnit)
           ELSE ThreadStep(t, db, "done", KeyNotFound(threads[t].key))

\* delete_cf, third part: DB::delete_cf, which succeeds whether or not the
\* key is still there.
DeleteCfDelete ==
    \E t \in Threads :
        /\ threads[t].pc = "delete"
        /\ ThreadStep(t, [db EXCEPT !.store[threads[t].cf] =
                                      EngineDelete(@, threads[t].key)],
                      "done", OkUnit)

\* create_cf, first part: the cf_exists check.
CreateCfBegin ==
    \E t \in Threads, name \in CFNames :
        ThreadBegin(t, [IdleThread EXCEPT !.op = "create_cf", !.cf = name],
                    IF cf_exists(db, name) THEN "done" ELSE "create", OkUnit)

\* create_cf, second part: DB::create_cf.
CreateCfCreate ==
    \E t \in Threads :
        /\ threads[t].pc = "create"
        /\ LET c == EngineCreateCf(db, threads[t].cf)
           IN  ThreadStep(t, c.db, "done", IF c.ok THEN OkUnit ELSE DbError)

\* drop_cf: one call of the engine.
DropCfThread ==
    \E t \in Threads, name \in CFNames :
        /\ call = NoCall
        /\ threads[t].pc = "idle"
        /\ LET o == drop_cf(db, name)
           IN  /\ db' = o.db
               /\ threads' = [threads EXCEPT ![t] =
                      [IdleThread EXCEPT !.op = "drop_cf", !.cf = name,
                                         !.pc = "done", !.ret = o.ret]]
        /\ pre' = IF Quiet THEN db ELSE pre
        /\ UNCHANGED <<call, ret, writer, reader, scan>>

\* Every thread is through with its call: the threads are joined.
Join ==
    /\ \A t \in Threads : threads[t].pc \in {"idle", "done"}
    /\ ~Quiet
    /\ threads' = [t \in Threads |-> IdleThread]
    /\ pre' = db
    /\ UNCHANGED <<db, call, ret, writer, reader, scan>>

\* Before the threads start, one caller fills the collections.
SetupInsertCf == Quiet /\ InsertCfOf(BatchKeys)

SetupReturn == Quiet /\ Return

\* The database a fresh directory gives.  open and open_default open the
\* default collection without a handle for it; open_cf (and
\* open_with_existing_cfs, which lists ["default"]) keep a handle for every
\* name listed and for the default collection.
Opened(names) ==
    [cfs |-> {DefaultCf} \cup names,
     handles |-> IF names = {} THEN {} ELSE {DefaultCf} \cup names,
     store |-> [c \in CFNames |-> <<>>],
     files |-> [p \in Paths |-> NoFile]]

open_default == Opened({})

open_cf(names) == Opened(names)

Init ==
    /\ db \in {open_default} \cup {open_cf(n) : n \in (SUBSET CFNames) \ {{}}}
    /\ pre = db
    /\ call = NoCall
    /\ ret = OkUnit
    /\ writer = IdleWriter
    /\ reader = NoRead
    /\ scan = IdleScan
    /\ threads = [t \in Threads |-> IdleThread]

\* The raw and typed calls on the default collection and the calls on named
\* collections, one caller.
Next ==
    \/ CallSave
    \/ CallFind
    \/ CallDelete
    \/ CallGet
    \/ CallInsert
    \/ CallCreateCf
    \/ CallCfExists
    \/ CallInsertCf
    \/ CallGetCf
    \/ CallDeleteCf
    \/ CallDropCf
    \/ Return

Spec == Init /\ [][Next]_vars

\* The batch calls, one caller.
NextBatch ==
    \/ CallBatchInsert
    \/ CallBatchInsertCf
    \/ CallCreateCf
    \/ CallDropCf
    \/ Return

SpecBatch == Init /\ [][NextBatch]_vars

\* The range scans over a collection that raw and typed writes fill.
NextRange ==
    \/ CallSave
    \/ CallDelete
    \/ CallCreateCf
    \/ CallGetRangeCf
    \/ CallGetRangeCfWithKeys
    \/ Return

SpecRange == Init /\ [][NextRange]_vars

\* The calls on a named collection, with the calls that create and drop
\* collections, one caller.  The writes use the keys "10" and "2", the
\* batches the key "2", the scans run from "0" to the end with the limits 1
\* and 1000, and the queries are "$[*]" and a malformed one.
NextCf ==
    \/ InsertCfOf(BatchKeys)
    \/ CallGetCf
    \/ CallDeleteCf
    \/ BatchInsertCfOf(BatchesOf({<<50>>} \X Vals))
    \/ GetRangeCfOf({<<48>>}, {<<120>>}, {1, 1000})
    \/ GetRangeCfWithKeysOf({<<48>>}, {<<120>>}, {1, 1000})
    \/ QueryCfOf({Query("wildcard", 0, 0), Query("malformed", 0, 0)})
    \/ QueryCfWithKeysOf({Query("wildcard", 0, 0), Query("malformed", 0, 0)})
    \/ CallCreateBackup
    \/ CallRestoreBackup
    \/ CallGetCfSize
    \/ CallCreateCf
    \/ CallDropCf
    \/ Return

SpecCf == Init /\ [][NextCf]_vars

\* A thread in a batch call and a thread that reads.
NextThreads ==
    \/ BeginBatchInsert
    \/ BeginBatchInsertCf
    \/ BatchPut
    \/ BatchWrite
    \/ BatchReturn
    \/ ReaderFind
    \/ ReaderGet
    \/ ReaderGetCf

SpecThreads == Init /\ [][NextThreads]_vars

\* A thread in a range scan and a thread that writes.
NextScan ==
    \/ BeginGetRangeCf
    \/ BeginGetRangeCfWithKeys
    \/ ScanFetch
    \/ ScanFinish
    \/ ScanReturn
    \/ OtherInsertCf
    \/ OtherDeleteCf

SpecScan == Init /\ [][NextScan]_vars

\* The queries over the default collection, which raw and typed writes
\* fill, and over a collection that stays empty.
NextQuery ==
    \/ CallSave
    \/ CallInsert
    \/ CallDelete
    \/ CallQueryCf
    \/ CallQueryCfWithKeys
    \/ Return

SpecQuery == Init /\ [][NextQuery]_vars

\* Two threads that write to the collections, each its own keys.
NextInserters ==
    \/ InsertCfBegin
    \/ InsertCfPut
    \/ Join

SpecInserters == Init /\ [][NextInserters]_vars

\* Two threads that delete from collections one caller has filled.
NextDeleters ==
    \/ SetupInsertCf
    \/ SetupReturn
    \/ DeleteCfBegin
    \/ DeleteCfGet
    \/ DeleteCfDelete
    \/ Join

SpecDeleters == Init /\ [][NextDeleters]_vars

\* Two threads that create and drop collections.
NextCreators ==
    \/ CreateCfBegin
    \/ CreateCfCreate
    \/ DropCfThread
    \/ Join

SpecCreators == Init /\ [][NextCreators]_vars

\* ------------------------------------------------------------------- claims

\* Whether a collection holds a record of key k, and how many.
Has(coll, k) == \E i \in 1..Len(coll) : coll[i][1] = k
CountKey(coll, k) == Cardinality({i \in 1..Len(coll) : coll[i][1] = k})
\* The bytes a collection holds for k (<<>> when it holds none).
BytesOf(coll, k) ==
    IF Has(coll, k) THEN coll[CHOOSE i \in 1..Len(coll) : coll[i][1] = k][2] ELSE <<>>
\* Collection c holds the same records for every key but k, before and after.
OtherKeysKept(c, k) ==
    \A x \in Keys \ {k} :
        /\ CountKey(db.store[c], x) = CountKey(pre.store[c], x)
        /\ BytesOf(db.store[c], x) = BytesOf(pre.store[c], x)
\* Every collection but c is as it was, and so is the set of collections.
OtherCollectionsKept(c) ==
    /\ db.cfs = pre.cfs
    /\ db.handles = pre.handles
    /\ \A x \in CFNames \ {c} : db.store[x] = pre.store[x]

\* C1: after insert(k, v) succeeds on the default collection, get(k) returns
\* v, also when k held another value before (the last insert wins), and the
\* collection holds exactly one record for k.
C1_InsertThenGet ==
    (call.op = "insert" /\ ret = OkUnit) =>
        /\ get(db, call.key).ret = OkVal(call.val)
        /\ CountKey(db.store[DefaultCf], call.key) = 1

\* An insert has replaced another value of its key.
C1_Witness ==
    /\ call.op = "insert"
    /\ ret = OkUnit
    /\ Has(pre.store[DefaultCf], call.key)
    /\ BytesOf(pre.store[DefaultCf], call.key) # BytesOf(db.store[DefaultCf], call.key)

\* C2: on the default collection find(k) returns the bytes of the last
\* save(k, _) not followed by a delete(k), and absent when k was never saved
\* or was deleted last; a save or delete of one key changes what find
\* returns for no other key, and find changes nothing.
C2_SaveFindDelete ==
    /\ call.op = "save" =>
        /\ ret = OkUnit
        /\ find(db, call.key).ret = OkSome(call.bytes)
        /\ \A k \in Keys \ {call.key} : find(db, k).ret = find(pre, k).ret
    /\ call.op = "delete" =>
        /\ ret = OkUnit
        /\ find(db, call.key).ret = OkNone
        /\ \A k \in Keys \ {call.key} : find(db, k).ret = find(pre, k).ret
    /\ call.op = "find" =>
        /\ db = pre
        /\ ret = IF Has(pre.store[DefaultCf], call.key)
                 THEN OkSome(BytesOf(pre.store[DefaultCf], call.key)) ELSE OkNone
    /\ db.store[DefaultCf] = <<>> => \A k \in Keys : find(db, k).ret = OkNone

\* A delete has removed a saved key while another key stays saved.
C2_Witness ==
    /\ call.op = "delete"
    /\ Has(pre.store[DefaultCf], call.key)
    /\ Len(db.store[DefaultCf]) >= 1
    /\ Len(pre.store[DefaultCf]) = Len(db.store[DefaultCf]) + 1

\* C3: get(k), and get_cf(c, k) on a collection c that exists, return
\* KeyNotFound(k) whenever k is absent from the collection; in particular
\* right after delete(k) and after a delete_cf(c, k) that succeeded.
C3_AbsentKeyNotFound ==
    /\ (call.op = "get" /\ ~Has(pre.store[DefaultCf], call.key)) =>
           ret = KeyNotFound(call.key)
    /\ (call.op = "get_cf" /\ cf_exists(pre, call.cf)
            /\ ~Has(pre.store[call.cf], call.key)) =>
           ret = KeyNotFound(call.key)
    /\ call.op = "delete" => get(db, call.key).ret = KeyNotFound(call.key)
    /\ (call.op = "delete_cf" /\ ret = OkUnit) =>
           get_cf(db, call.cf, call.key).ret = KeyNotFound(call.key)

\* A get_cf has missed a key in a collection that holds other records.
C3_Witness ==
    /\ call.op = "get_cf"
    /\ call.cf # DefaultCf
    /\ ret = KeyNotFound(call.key)
    /\ Len(db.store[call.cf]) >= 1

\* C5: a batch_insert or batch_insert_cf that returns an error (an item
\* does not encode, the collection is missing, the engine's write fails) has
\* written nothing: the database is as it was before the call.
C5_FailedBatchWritesNothing ==
    (call.op \in {"batch_insert", "batch_insert_cf"} /\ IsErr(ret)) => db = pre

\* A batch has failed on an item that follows one that encodes.
C5_Witness ==
    /\ call.op = "batch_insert_cf"
    /\ ret = SerializationError
    /\ Len(call.items) = 2
    /\ Serialize(call.items[1][2]).ok
    /\ ~Has(db.store[call.cf], call.items[1][1])

\* C7: delete_cf(c, k) on a collection c that exists returns KeyNotFound(k)
\* when k is absent from c and then changes nothing; when k is present it
\* returns success, k is absent from c afterwards, and every other key of c
\* and every other collection is as before.
C7_DeleteCf ==
    (call.op = "delete_cf" /\ cf_exists(pre, call.cf)) =>
        IF ~Has(pre.store[call.cf], call.key)
        THEN ret = KeyNotFound(call.key) /\ db = pre
        ELSE /\ ret = OkUnit
             /\ ~Has(db.store[call.cf], call.key)
             /\ OtherKeysKept(call.cf, call.key)
             /\ OtherCollectionsKept(call.cf)

\* A delete_cf has missed a key while the database holds records.
C7_Witness ==
    /\ call.op = "delete_cf"
    /\ ret = KeyNotFound(call.key)
    /\ Len(db.store[call.cf]) >= 1
    /\ \E c \in CFNames \ {call.cf} : Has(db.store[c], call.key)

\* C8: insert_cf(c, k, v) on a collection c that exists is a blind upsert:
\* with a value that encodes it succeeds whether or not k is present (a value
\* that does not encode gives SerializationError and changes nothing),
\* get_cf(c, k) then returns v, and every other key of c and every other
\* collection, the same key k in it included, is as before.
C8_InsertCfUpsert ==
    (call.op = "insert_cf" /\ cf_exists(pre, call.cf)) =>
        IF Serialize(call.val).ok
        THEN /\ ret = OkUnit
             /\ get_cf(db, call.cf, call.key).ret = OkVal(call.val)
             /\ CountKey(db.store[call.cf], call.key) = 1
             /\ OtherKeysKept(call.cf, call.key)
             /\ OtherCollectionsKept(call.cf)
        ELSE ret = SerializationError /\ db = pre

\* An insert_cf has replaced the value of a key that another collection
\* holds too, with another value.
C8_Witness ==
    /\ call.op = "insert_cf"
    /\ ret = OkUnit
    /\ Has(pre.store[call.cf], call.key)
    /\ BytesOf(pre.store[call.cf], call.key) # BytesOf(db.store[call.cf], call.key)
    /\ \E c \in CFNames \ {call.cf} :
           /\ Has(db.store[c], call.key)
           /\ BytesOf(db.store[c], call.key) # BytesOf(db.store[call.cf], call.key)

\* The engine has the collection: it was there when the database was
\* opened, or it was created and not dropped since.
HasCollection(d, c) == c \in d.cfs

\* C9: create_cf(name) is idempotent: on a name that already exists it
\* returns success and changes nothing; after any call cf_exists(name) is
\* true and one more call leaves the same state; no call changes another
\* collection.
C9_CreateCfIdempotent ==
    call.op = "create_cf" =>
        /\ HasCollection(pre, call.cf) => (ret = OkUnit /\ db = pre)
        /\ cf_exists(db, call.cf)
        /\ create_cf(db, call.cf) = Out(db, OkUnit)
        /\ \A c \in CFNames \ {call.cf} :
               /\ db.store[c] = pre.store[c]
               /\ cf_exists(db, c) = cf_exists(pre, c)

\* C9 for the names the handle resolves and the names the engine does not
\* have: on the first create_cf returns success and changes nothing, on the
\* second it creates the collection, and one more call changes nothing.
C9_WithHandle ==
    (call.op = "create_cf"
        /\ (cf_exists(pre, call.cf) \/ ~HasCollection(pre, call.cf))) =>
        /\ ret = OkUnit
        /\ cf_exists(pre, call.cf) => db = pre
        /\ cf_exists(db, call.cf)
        /\ create_cf(db, call.cf) = Out(db, OkUnit)
        /\ \A c \in CFNames \ {call.cf} :
               /\ db.store[c] = pre.store[c]
               /\ cf_exists(db, c) = cf_exists(pre, c)

\* create_cf has been called on a collection that holds records.
C9_WithHandleReached ==
    /\ call.op = "create_cf"
    /\ call.cf # DefaultCf
    /\ ret = OkUnit
    /\ Len(db.store[call.cf]) >= 1

\* A batch call is in progress on the writer's thread.
InProgress == writer.pc \in {"build", "done"}
\* The keys of an item list, and the value the last item of key k gives it.
ItemKeys(items) == {items[i][1] : i \in 1..Len(items)}
LastValue(items, k) ==
    items[CHOOSE i \in 1..Len(items) :
            /\ items[i][1] = k
            /\ \A j \in (i + 1)..Len(items) : items[j][1] # k][2]
\* The collection of the batch holds the batch's value under every key of
\* the batch; or the collection is as it was when the call began.
AllNew ==
    \A k \in ItemKeys(call.items) :
        /\ CountKey(db.store[call.cf], k) = 1
        /\ BytesOf(db.store[call.cf], k) = Serialize(LastValue(call.items, k)).bytes
NoneNew == db.store[call.cf] = pre.store[call.cf]
\* The reader has read a key of the batch in the batch's collection.
ReadOfBatchKey ==
    /\ reader.op # "none"
    /\ reader.cf = call.cf
    /\ reader.key \in ItemKeys(call.items)
\* What the reader's call returns on the database as it was when the batch
\* call began, and what it returns when it finds the batch's value.
OldResult ==
    CASE reader.op = "find" -> find(pre, reader.key).ret
      [] reader.op = "get" -> get(pre, reader.key).ret
      [] OTHER -> get_cf(pre, reader.cf, reader.key).ret
NewResult ==
    CASE reader.op = "find" ->
            OkSome(Serialize(LastValue(call.items, reader.key)).bytes)
      [] reader.op = "get" -> OkVal(LastValue(call.items, reader.key))
      [] OTHER -> IF cf_exists(pre, reader.cf)
                  THEN OkVal(LastValue(call.items, reader.key))
                  ELSE InvalidColumnFamily(reader.cf)

\* C4: while batch_insert or batch_insert_cf is in progress, the collection
\* holds all of the batch's values or is as it was when the call began, and
\* a find, get or get_cf of a key of the batch by another thread returns
\* accordingly; no state in between is there to be read.
C4_BatchAtomic ==
    InProgress =>
        \/ NoneNew /\ (ReadOfBatchKey => reader.ret = OldResult)
        \/ AllNew /\ (ReadOfBatchKey => reader.ret = NewResult)

\* A batch of two keys has been written and not yet returned; it replaced
\* the value of "10" and added "2", and the reader has got the new value.
C4_Witness ==
    /\ writer.pc = "done"
    /\ call.op = "batch_insert_cf"
    /\ ret = OkUnit
    /\ ItemKeys(call.items) = BatchKeys
    /\ Has(pre.store[call.cf], <<49, 48>>)
    /\ ~Has(pre.store[call.cf], <<50>>)
    /\ BytesOf(pre.store[call.cf], <<49, 48>>) # BytesOf(db.store[call.cf], <<49, 48>>)
    /\ reader.op = "get_cf"
    /\ reader.cf = call.cf
    /\ reader.key = <<50>>
    /\ reader.ret = OkVal(200)

\* The reader has read a key of the batch while the batch was being built,
\* and found the collection as it was.
C4_ReadBeforeWriteReached ==
    /\ writer.pc = "build"
    /\ writer.i > 1
    /\ Len(call.items) = 2
    /\ ReadOfBatchKey
    /\ reader.ret = OldResult
    /\ reader.ret # NewResult

\* The calls that name a collection.
CfScopedOps ==
    {"insert_cf", "get_cf", "delete_cf", "batch_insert_cf", "get_range_cf",
     "get_range_cf_with_keys", "query_cf", "query_cf_with_keys",
     "create_backup", "restore_backup", "get_cf_size"}

\* C6: every call that names a collection, made with a name the handle does
\* not resolve, returns InvalidColumnFamily carrying that name and leaves
\* the collections, their records and the backup files as they were.
C6_MissingCollection ==
    (call.op \in CfScopedOps /\ ~cf_exists(pre, call.cf)) =>
        /\ ret = InvalidColumnFamily(call.cf)
        /\ db = pre

\* create_backup on a missing collection, with records in another one, has
\* returned the error and produced no file.
C6_Witness ==
    /\ call.op = "create_backup"
    /\ ~cf_exists(pre, call.cf)
    /\ Records(pre) > 0
    /\ ret = InvalidColumnFamily(call.cf)
    /\ db.files[call.path] = NoFile
    /\ call.cf \notin db.cfs

\* Every record of the collection decodes to a typed value.
AllDecode(coll) == \A i \in 1..Len(coll) : Deserialize(coll[i][2]).ok
\* How many keys of the collection come before k in the raw byte order.
Rank(coll, k) == Cardinality({j \in 1..Len(coll) : KeyLess(coll[j][1], k)})
\* The values of the collection by ascending key.
AscendingValues(coll) ==
    [i \in 1..Len(coll) |->
        LET k == CHOOSE x \in {coll[j][1] : j \in 1..Len(coll)} : Rank(coll, x) = i - 1
        IN  Deserialize(BytesOf(coll, k)).val]
\* A full forward scan: from "0", a `to` at or beyond the last position, a
\* limit of at least the collection's size, over records that all decode.
FullForwardScan ==
    /\ call.op = "get_range_cf"
    /\ cf_exists(pre, call.cf)
    /\ call.direction = "Forward"
    /\ call.from = <<48>>
    /\ ParseUsize(call.to).ok
    /\ ParseUsize(call.to).n >= Len(pre.store[call.cf]) - 1
    /\ call.limit >= Len(pre.store[call.cf])
    /\ AllDecode(pre.store[call.cf])

\* C10: get_range_cf with direction Forward, from "0", a `to` at or beyond
\* the last position and a limit of at least the collection's size returns
\* every record of the collection exactly once, by ascending lexicographic
\* order of the raw key bytes.
C10_FullForwardScan ==
    FullForwardScan => ret = OkList(AscendingValues(pre.store[call.cf]))

\* C10 for every `to` below usize::MAX: there the scan returns every record
\* in ascending key order.
C10_BelowUsizeMax ==
    (FullForwardScan /\ call.to # UsizeMaxStr) =>
        ret = OkList(AscendingValues(pre.store[call.cf]))

\* A full forward scan has returned "1", "10", "2" in that order.
C10_BelowUsizeMaxReached ==
    /\ FullForwardScan
    /\ call.to # UsizeMaxStr
    /\ Len(pre.store[call.cf]) = 3
    /\ ret.kind = "List"
    /\ Len(ret.list) = 3
    /\ ret.list[2] # ret.list[3]
    /\ ret.list[2] = Deserialize(BytesOf(pre.store[call.cf], <<49, 48>>)).val
    /\ ret.list[3] = Deserialize(BytesOf(pre.store[call.cf], <<50>>)).val

\* What the same scan returns on the same database with direction Forward.
ForwardResult ==
    get_range_cf(pre, call.cf, call.from, call.to, call.limit, "Forward",
                 call.build).ret
\* The limit of the call does not truncate: it is at least the number of
\* records of the collection.
LimitKeepsAll == call.limit >= Len(pre.store[call.cf])

\* C11: over the same collection and the same window, with a limit that
\* does not truncate, get_range_cf with direction Reverse returns the list
\* that direction Forward returns, in reversed order; when Forward returns
\* no list, Reverse ends the same way.
C11_ReverseOfForward ==
    (call.op = "get_range_cf" /\ call.direction = "Reverse"
        /\ cf_exists(pre, call.cf) /\ LimitKeepsAll) =>
        IF ForwardResult.kind = "List"
        THEN /\ ret.kind = "List"
             /\ Len(ret.list) = Len(ForwardResult.list)
             /\ \A i \in 1..Len(ret.list) :
                   ret.list[i] = ForwardResult.list[Len(ret.list) + 1 - i]
        ELSE ret = ForwardResult

\* A Reverse scan has returned two different values, the later key first.
C11_Witness ==
    /\ call.op = "get_range_cf"
    /\ call.direction = "Reverse"
    /\ LimitKeepsAll
    /\ ret.kind = "List"
    /\ Len(ret.list) >= 2
    /\ ret.list[1] # ret.list[2]
    /\ ForwardResult.kind = "List"
    /\ ForwardResult.list # ret.list

\* What the same scan returns on the same database with a limit beyond any
\* collection's size: the window in the order of the direction.
Untruncated ==
    get_range_cf(pre, call.cf, call.from, call.to, Huge, call.direction,
                 call.build).ret
\* A get_range_cf on a collection the handle resolves, whose records all
\* decode.
TypedScan ==
    /\ call.op = "get_range_cf"
    /\ cf_exists(pre, call.cf)
    /\ AllDecode(pre.store[call.cf])

\* C12: the limit of get_range_cf is applied after the direction: the
\* result has at most `limit` items, it is the first `limit` items of the
\* window in the order of the direction, and it is the empty list when
\* limit is 0.
C12_LimitAfterDirection ==
    TypedScan =>
        /\ ret.kind = "List"
        /\ Len(ret.list) <= call.limit
        /\ Untruncated.kind = "List" =>
               ret.list = SubSeq(Untruncated.list, 1,
                                 Min(call.limit, Len(Untruncated.list)))

\* C12 for the calls whose window computation does not panic: there the
\* result is the first `limit` items of the direction-ordered window.
C12_WhereWindowExists ==
    (TypedScan /\ Untruncated.kind # "Panic") =>
        /\ Untruncated.kind = "List"
        /\ ret = OkList(SubSeq(Untruncated.list, 1,
                               Min(call.limit, Len(Untruncated.list))))
        /\ Len(ret.list) <= call.limit

\* A Reverse scan with limit 1 over a window of three records has returned
\* the record of the highest position only.
C12_WhereWindowExistsReached ==
    /\ TypedScan
    /\ call.direction = "Reverse"
    /\ call.limit = 1
    /\ Untruncated.kind = "List"
    /\ Len(Untruncated.list) = 3
    /\ ret = OkList(<<Untruncated.list[1]>>)
    /\ Untruncated.list[1] # Untruncated.list[3]

\* The window the positions name: with n records, f the number `from`
\* parses to (0 when it does not parse) and t the number `to` parses to (n
\* when it does not), the records at the zero-based positions min(f, n) up
\* to and including min(t, n - 1) of the keys in ascending order.
OrdinalWindow(coll, from, to) ==
    LET n == Len(coll)
        f == IF ParseUsize(from).ok THEN ParseUsize(from).n ELSE 0
        t == IF ParseUsize(to).ok THEN ParseUsize(to).n ELSE n
    IN  SubSeq(AscendingValues(coll), Min(f, n) + 1, Min(t, n - 1) + 1)
\* An untruncated Forward scan of typed records.
UntruncatedForward ==
    /\ TypedScan
    /\ call.direction = "Forward"
    /\ LimitKeepsAll

\* C13: the window of get_range_cf is ordinal and inclusive: the
\* untruncated Forward result is exactly the records at the positions
\* min(f, n) up to and including min(t, n - 1) of the sorted keys, whatever
\* the keys are, and the empty list when from is at or beyond n.
C13_OrdinalWindow ==
    UntruncatedForward =>
        ret = OkList(OrdinalWindow(pre.store[call.cf], call.from, call.to))

\* C13 for the calls whose window computation does not panic and whose `to`
\* is below usize::MAX.
C13_WhereWindowExists ==
    (UntruncatedForward /\ ret # Panic /\ call.to # UsizeMaxStr) =>
        ret = OkList(OrdinalWindow(pre.store[call.cf], call.from, call.to))

\* A scan from "1" to "1" over the keys "1", "10", "2" has returned the
\* record of "10", the one at position 1, and nothing else.
C13_WhereWindowExistsReached ==
    /\ UntruncatedForward
    /\ call.from = <<49>>
    /\ call.to = <<49>>
    /\ Len(pre.store[call.cf]) = 3
    /\ ret = OkList(<<Deserialize(BytesOf(pre.store[call.cf], <<49, 48>>)).val>>)
    /\ BytesOf(pre.store[call.cf], <<49, 48>>) # BytesOf(pre.store[call.cf], <<49>>)

\* What the scan in progress returns on the database as it was when the
\* scan began.
SnapshotResult ==
    IF call.op = "get_range_cf"
    THEN get_range_cf(pre, call.cf, call.from, call.to, call.limit,
                      call.direction, call.build).ret
    ELSE get_range_cf_with_keys(pre, call.cf, call.from, call.to, call.limit,
                                call.direction, call.build).ret

\* C14: a range scan returns exactly the records its window held at the
\* moment the call began, whatever another thread inserts, overwrites or
\* deletes in the collection while the scan runs.
C14_ScanSeesSnapshot ==
    scan.pc = "done" => ret = SnapshotResult

\* What does hold of a scan with keys that ran beside a writer: it returns
\* no key but those its window held when it began, and no more items.
C14_KeysOfSnapshot ==
    (scan.pc = "done" /\ call.op = "get_range_cf_with_keys" /\ ret.kind = "List") =>
        /\ SnapshotResult.kind = "List"
        /\ Len(ret.list) <= Len(SnapshotResult.list)
        /\ \A i \in 1..Len(ret.list) :
               \E j \in 1..Len(SnapshotResult.list) :
                   ret.list[i][1] = SnapshotResult.list[j][1]

\* A scan has returned a value that was written after it began.
C14_LateValueReached ==
    /\ scan.pc = "done"
    /\ call.op = "get_range_cf"
    /\ ret.kind = "List"
    /\ SnapshotResult.kind = "List"
    /\ Len(ret.list) = Len(SnapshotResult.list)
    /\ ret # SnapshotResult

\* What a full forward range scan returns on the database as it was before
\* the call: from "0" to "999", no limit to speak of.
FullForwardResult ==
    get_range_cf(pre, call.cf, <<48>>, <<57, 57, 57>>, Huge, "Forward",
                 "release").ret

SelectedPositions ==
    Select(JsonArray(Collect(pre.store[call.cf]).docs), call.query)

\* C16: every item query_cf_with_keys returns carries the key under which the
\* selected record is stored: the i-th returned key is the key at the i-th
\* selected position of the collection's sorted keys.
C16_KeyOfSelectedRecord ==
    (call.op = "query_cf_with_keys" /\ ret.kind = "List") =>
        /\ Len(ret.list) = Len(SelectedPositions)
        /\ \A i \in 1..Len(ret.list) :
              ret.list[i][1] = Utf8Lossy(pre.store[call.cf][SelectedPositions[i]][1])

\* No two records of the collection the last call worked on hold equal bytes.
DistinctValues ==
    \A i, j \in 1..Len(pre.store[call.cf]) :
        pre.store[call.cf][i][2] = pre.store[call.cf][j][2] => i = j

\* C16, where it holds: in a collection whose records all differ, each
\* returned key is the key of the selected record.
C16_WhereValuesDiffer ==
    (call.op = "query_cf_with_keys" /\ ret.kind = "List" /\ DistinctValues) =>
        /\ Len(ret.list) = Len(SelectedPositions)
        /\ \A i \in 1..Len(ret.list) :
              ret.list[i] = << Utf8Lossy(pre.store[call.cf][SelectedPositions[i]][1]),
                               Deserialize(pre.store[call.cf][SelectedPositions[i]][2]).val >>

\* A query with keys has returned two records of a collection whose records
\* all differ.
C16_WhereValuesDifferReached ==
    /\ call.op = "query_cf_with_keys"
    /\ ret.kind = "List"
    /\ DistinctValues
    /\ Len(ret.list) = 2

\* The decoded values of the records whose value the filter "$[?@ > a]"
\* accepts, in the order the collection holds them.
RECURSIVE Satisfying(_, _)
Satisfying(coll, a) ==
    IF coll = <<>> THEN <<>>
    ELSE (IF Deserialize(Head(coll)[2]).val > a
          THEN <<Deserialize(Head(coll)[2]).val>> ELSE <<>>) \o Satisfying(Tail(coll), a)

MalformedQuery ==
    /\ call.op \in {"query_cf", "query_cf_with_keys"}
    /\ call.query.kind = "malformed"
    /\ cf_exists(pre, call.cf)

\* C18: a malformed expression is rejected with InvalidQuery before the scan
\* begins, whatever the collection holds, also when it holds a record that
\* cannot be decoded.
C18_InvalidQueryFirst == MalformedQuery => ret = InvalidQuery

\* C18, where it holds: over records that all decode the malformed
\* expression is answered with InvalidQuery.
C18_WhereAllDecode ==
    (MalformedQuery /\ AllDecode(pre.store[call.cf])) => ret = InvalidQuery

\* A malformed expression was answered with InvalidQuery on a collection
\* that holds records.
C18_WhereAllDecodeReached ==
    /\ MalformedQuery
    /\ Len(pre.store[call.cf]) = 2
    /\ ret = InvalidQuery

\* What a full forward range scan of collection cf returns on database d.
ScanOf(d, cf) ==
    get_range_cf(d, cf, <<48>>, <<57, 57, 57>>, Huge, "Forward", "release").ret

\* The last call was a restore_backup that succeeded.
Restored == call.op = "restore_backup" /\ ret = OkUnit

\* C19: a backup that succeeds holds the records of its collection as they
\* were when it was taken, and a restore that succeeds on an existing empty
\* collection leaves in it exactly the records of the file, so that a full
\* forward scan of the restored collection returns what a full forward scan
\* of the backed-up collection returned at backup time.
C19_RoundTrip ==
    /\ (call.op = "create_backup" /\ ret = OkUnit) =>
            /\ db.files[call.path] = SstFile(pre.store[call.cf])
            /\ db.store = pre.store
    /\ (Restored /\ pre.store[call.cf] = <<>>) =>
            /\ db.store[call.cf] = pre.files[call.path].recs
            /\ db.files = pre.files
            /\ ScanOf(db, call.cf) =
                   ScanOf([pre EXCEPT !.store[call.cf] = pre.files[call.path].recs], call.cf)

\* A backup of two records was restored into the collection "users" while
\* it was empty.
C19_Witness ==
    /\ Restored
    /\ call.cf = "users"
    /\ pre.store[call.cf] = <<>>
    /\ Len(db.store[call.cf]) = 2
    /\ ScanOf(db, call.cf).kind = "List"
    /\ Len(ScanOf(db, call.cf).list) = 2

\* The records of the file the last call named, as they were before it.
FileRecs == pre.files[call.path].recs

\* C20: a restore that succeeds merges the file into the collection: every
\* key of the file maps to the file's value, every other key of the
\* collection keeps its value, no key is held twice and no other collection
\* changes; a restore that fails leaves every collection as it was; either
\* way the file stays as it was, and after a success it can be restored
\* again.
C20_RestoreMerges ==
    /\ Restored =>
            /\ \A k \in Keys :
                  /\ CountKey(db.store[call.cf], k) <= 1
                  /\ Has(FileRecs, k) =>
                        BytesOf(db.store[call.cf], k) = BytesOf(FileRecs, k)
                  /\ ~Has(FileRecs, k) =>
                        /\ Has(db.store[call.cf], k) = Has(pre.store[call.cf], k)
                        /\ BytesOf(db.store[call.cf], k) = BytesOf(pre.store[call.cf], k)
            /\ OtherCollectionsKept(call.cf)
            /\ restore_backup(db, call.cf, call.path) = Out(db, OkUnit)
    /\ (call.op = "restore_backup" /\ ret # OkUnit) => db.store = pre.store
    /\ call.op = "restore_backup" => db.files = pre.files

\* A restore succeeded on a collection that held a key of the file under
\* another value and a key the file does not hold.
C20_Witness ==
    /\ Restored
    /\ \E k \in Keys :
          /\ Has(FileRecs, k)
          /\ Has(pre.store[call.cf], k)
          /\ BytesOf(pre.store[call.cf], k) # BytesOf(FileRecs, k)
    /\ \E k \in Keys : Has(pre.store[call.cf], k) /\ ~Has(FileRecs, k)

\* A restore failed on a collection that exists and holds records.
C20_FailedRestoreReached ==
    /\ call.op = "restore_backup"
    /\ ret = DbError
    /\ pre.store[call.cf] # <<>>

\* Both threads are through with a call `op` and not yet joined.
BothDone(op) == \A t \in Threads : threads[t].pc = "done" /\ threads[t].op = op

\* Both threads worked on the same collection.
SameCollection == threads[1].cf = threads[2].cf

\* C21: when two threads call insert_cf on the same existing collection,
\* each for its own keys, in any interleaving, neither call fails and after
\* both get_cf returns for each written key the value its writer posted.
C21_NoLostRecord ==
    (BothDone("insert_cf") /\ SameCollection /\ cf_exists(pre, threads[1].cf)) =>
        \A t \in Threads :
            /\ threads[t].ret = OkUnit
            /\ get_cf(db, threads[t].cf, threads[t].key).ret = OkVal(threads[t].val)

\* Both threads have written to "users", which held no record when the
\* first of them began.
C21_Witness ==
    /\ BothDone("insert_cf")
    /\ SameCollection
    /\ threads[1].cf = "users"
    /\ threads[1].ret = OkUnit
    /\ threads[2].ret = OkUnit
    /\ pre.store["users"] = <<>>
    /\ Len(db.store["users"]) = 2

\* Both threads are between the handle lookup and the put on "users".
C21_BothInFlightReached ==
    \A t \in Threads : threads[t].pc = "put" /\ threads[t].cf = "users"

\* What the calls that name a collection return for the name c on the
\* database d: a read, a write, a delete, a batch, a scan, a query, a
\* backup, a restore and the size.
ScopedResults(d, c) ==
    {get_cf(d, c, k).ret : k \in Keys}
        \cup {insert_cf(d, c, k, 7).ret : k \in Keys}
        \cup {delete_cf(d, c, k).ret : k \in Keys}
        \cup {batch_insert_cf(d, c, << <<k, 7>> >>, TRUE).ret : k \in Keys}
        \cup {get_range_cf(d, c, <<48>>, <<57, 57, 57>>, 1000, "Forward", "release").ret,
              get_range_cf_with_keys(d, c, <<48>>, <<57, 57, 57>>, 1000, "Forward",
                                     "release").ret,
              query_cf(d, c, Query("wildcard", 0, 0)).ret,
              query_cf_with_keys(d, c, Query("wildcard", 0, 0)).ret,
              get_cf_size(d, c).ret}
        \cup {create_backup(d, c, p).ret : p \in Paths}
        \cup {restore_backup(d, c, p).ret : p \in Paths}

\* C22: after drop_cf(c) succeeds, cf_exists(c) is false and none of c's
\* records is left; as long as cf_exists(c) is false every call that names c
\* returns InvalidColumnFamily(c), and only create_cf(c) ends that; the
\* create_cf(c) that follows leaves c existing and empty.
C22_DropThenCreate ==
    /\ (call.op = "drop_cf" /\ ret = OkUnit) =>
            /\ cf_exists(pre, call.cf)
            /\ ~cf_exists(db, call.cf)
            /\ db.store[call.cf] = <<>>
    /\ \A c \in CFNames :
            ~cf_exists(db, c) => ScopedResults(db, c) = {InvalidColumnFamily(c)}
    /\ \A c \in CFNames :
            (~cf_exists(pre, c) /\ cf_exists(db, c)) =>
                /\ call.op = "create_cf"
                /\ call.cf = c
                /\ ret = OkUnit
                /\ db.store[c] = <<>>
                /\ get_range_cf(db, c, <<48>>, <<57, 57, 57>>, 1000, "Forward",
                                "release").ret = OkList(<<>>)

\* drop_cf has succeeded on a collection that held two records.
C22_Witness ==
    /\ call.op = "drop_cf"
    /\ ret = OkUnit
    /\ Len(pre.store[call.cf]) = 2
    /\ ~cf_exists(db, call.cf)

\* create_cf has created a collection again whose name the engine does not
\* hold, in a database where another collection holds records.
C22_CreatedAgainReached ==
    /\ call.op = "create_cf"
    /\ ret = OkUnit
    /\ ~cf_exists(pre, call.cf)
    /\ cf_exists(db, call.cf)
    /\ Records(db) > 0

\* The last call was a range scan, with or without keys.
RangeCall == call.op \in {"get_range_cf", "get_range_cf_with_keys"}

\* The positions the arguments of the last call parse to, before clamping:
\* 0 for a `from` that is no number, the number of records for such a `to`.
FromPos ==
    IF ParseUsize(call.from).ok THEN ParseUsize(call.from).n ELSE 0
ToPos ==
    IF ParseUsize(call.to).ok THEN ParseUsize(call.to).n
    ELSE Len(pre.store[call.cf])

\* The window is empty by its positions: `from` lies beyond `to` + 1.
FromBeyondTo == ToPos < Huge /\ FromPos > ToPos + 1

\* C23: the range scans never abort: every call returns a list or an error
\* value, and a call whose `from` position lies beyond its `to` position
\* plus one returns the empty list.
C23_NeverAborts ==
    RangeCall =>
        /\ ret.kind # "Panic"
        /\ (cf_exists(pre, call.cf) /\ FromBeyondTo) => ret = OkList(<<>>)

\* The clamped positions of the last call: the slice all_keys[from..to]
\* exists when the first is not beyond the second.
SliceExists ==
    Min(FromPos, Len(pre.store[call.cf])) <=
        Min(ToPos + 1, Len(pre.store[call.cf]))

\* C23, where it holds: a call whose `to` is below usize::MAX and whose
\* clamped `from` is not beyond its clamped `to` + 1 returns a list or an
\* error value.
C23_WhereSliceExists ==
    (RangeCall /\ ToPos < Huge /\ SliceExists) => ret.kind # "Panic"

\* A scan whose positions name an empty window at the end of the
\* collection has returned the empty list.
C23_WhereSliceExistsReached ==
    /\ RangeCall
    /\ cf_exists(pre, call.cf)
    /\ FromBeyondTo
    /\ SliceExists
    /\ Len(pre.store[call.cf]) = 1
    /\ ret = OkList(<<>>)

\* The calls without a collection name work on database d: a write and a
\* typed write succeed and are read back.
UnscopedWork(d) ==
    \A k \in Keys :
        /\ save(d, k, <<7>>).ret = OkUnit
        /\ find(save(d, k, <<7>>).db, k).ret = OkSome(<<7>>)
        /\ insert(d, k, 7).ret = OkUnit
        /\ get(insert(d, k, 7).db, k).ret = OkVal(7)

\* C24: the collection "default" is always present: in every state, also
\* after drop_cf("default"), cf_exists("default") is true and save, find,
\* insert and get keep working.
C24_DefaultAlwaysPresent ==
    /\ cf_exists(db, DefaultCf)
    /\ UnscopedWork(db)

\* C24, where it holds: the engine always holds the default collection,
\* drop_cf("default") fails and removes none of its records, and save, find,
\* insert and get keep working.
C24_EngineKeepsDefault ==
    /\ HasCollection(db, DefaultCf)
    /\ UnscopedWork(db)
    /\ (call.op = "drop_cf" /\ call.cf = DefaultCf) =>
            /\ ret = DbError
            /\ db.store = pre.store

\* drop_cf("default") has been called on a default collection that has its
\* handle and holds records.
C24_EngineKeepsDefaultReached ==
    /\ call.op = "drop_cf"
    /\ call.cf = DefaultCf
    /\ cf_exists(pre, DefaultCf)
    /\ Len(pre.store[DefaultCf]) >= 1
    /\ ~cf_exists(db, DefaultCf)

\* What the last range scan returns on the same database with the same
\* arguments but the given `to`.
SameScanTo(to) ==
    IF call.op = "get_range_cf"
    THEN get_range_cf(pre, call.cf, call.from, to, call.limit, call.direction,
                      call.build).ret
    ELSE get_range_cf_with_keys(pre, call.cf, call.from, to, call.limit,
                                call.direction, call.build).ret

\* C25: the window end is computed without overflow: a scan whose `to` is
\* usize::MAX returns what the same scan returns with any other `to` beyond
\* the last position ("999"), the end clamped to the collection's size.
C25_NoOverflow ==
    (RangeCall /\ call.to = UsizeMaxStr /\ cf_exists(pre, call.cf)) =>
        /\ ret.kind # "Panic"
        /\ ret = SameScanTo(<<57, 57, 57>>)

\* C25, where it holds: every `to` beyond the last position and below
\* usize::MAX is clamped to the collection's size, as is a `to` that is no
\* number.
C25_ClampBelowMax ==
    (RangeCall /\ call.to = <<57, 57, 57>> /\ cf_exists(pre, call.cf)) =>
        /\ ret = SameScanTo(<<120>>)
        /\ ret.kind = "List" => Len(ret.list) <= Len(pre.store[call.cf])

\* A scan to "999" from position 1 of three records has returned two.
C25_ClampBelowMaxReached ==
    /\ RangeCall
    /\ call.to = <<57, 57, 57>>
    /\ call.from = <<49>>
    /\ Len(pre.store[call.cf]) = 3
    /\ ret.kind = "List"
    /\ Len(ret.list) = 2

\* What get_range_cf returns on the same database for the arguments of the
\* last call.
PlainScan ==
    get_range_cf(pre, call.cf, call.from, call.to, call.limit, call.direction,
                 call.build).ret

UnscopedOps == {"save", "find", "delete", "get", "insert"}

\* What a typed read returns for stored bytes b.
Typed(b) ==
    IF Deserialize(b).ok THEN OkVal(Deserialize(b).val) ELSE DeserializationError

\* The bytes the last save or insert wrote.
WrittenBytes ==
    IF call.op = "save" THEN call.bytes ELSE Serialize(call.val).bytes

\* Database d with every collection but "default" emptied.
OnlyDefault(d) ==
    [d EXCEPT !.store = [c \in CFNames |-> IF c = DefaultCf THEN d.store[c] ELSE <<>>]]

\* What the last call, one without a collection name, returns on database d.
UnscopedRet(d) ==
    CASE call.op = "save" -> save(d, call.key, call.bytes).ret
      [] call.op = "find" -> find(d, call.key).ret
      [] call.op = "delete" -> delete(d, call.key).ret
      [] call.op = "get" -> get(d, call.key).ret
      [] call.op = "insert" -> insert(d, call.key, call.val).ret

\* A write without a collection name is read through get_cf("default", k):
\* save, insert and batch_insert.
SeenThroughGetCf ==
    /\ (call.op \in {"save", "insert"} /\ ret = OkUnit) =>
            get_cf(db, DefaultCf, call.key).ret = Typed(WrittenBytes)
    /\ \A k \in Keys :
            get_cf(batch_insert(db, << <<k, 7>> >>, TRUE).db, DefaultCf, k).ret = OkVal(7)

\* A write through insert_cf("default", k, v) is read through get and find.
SeenThroughGet ==
    (call.op = "insert_cf" /\ call.cf = DefaultCf /\ ret = OkUnit) =>
        /\ get(db, call.key).ret = OkVal(call.val)
        /\ find(db, call.key).ret = OkSome(Serialize(call.val).bytes)

\* A call without a collection name changes no other collection and its
\* result does not depend on the records of another collection.
OthersUntouched ==
    call.op \in UnscopedOps =>
        /\ OtherCollectionsKept(DefaultCf)
        /\ ret = UnscopedRet(OnlyDefault(pre))

\* C27: the calls without a collection name act on the collection "default"
\* and on no other: what save, insert and batch_insert write is read through
\* get_cf("default", k), what insert_cf("default", k, v) writes is read
\* through get and find, and no such call changes or reads another
\* collection.
C27_UnscopedIsDefault ==
    /\ SeenThroughGetCf
    /\ SeenThroughGet
    /\ OthersUntouched

\* C27, where it holds: with a handle for "default" the writes without a
\* collection name are read through get_cf("default", k); with or without
\* it the other two parts hold.
C27_WithHandle ==
    /\ cf_exists(db, DefaultCf) => SeenThroughGetCf
    /\ SeenThroughGet
    /\ OthersUntouched

\* A save has written to "default", which has its handle, while "users"
\* holds a record.
C27_WithHandleReached ==
    /\ call.op = "save"
    /\ cf_exists(db, DefaultCf)
    /\ Len(db.store["users"]) >= 1
    /\ get_cf(db, DefaultCf, call.key).ret = Typed(call.bytes)

\* The last call was a delete of a key the default collection did not hold.
DeleteOfAbsent ==
    call.op = "delete" /\ ~Has(pre.store[DefaultCf], call.key)

\* C28: delete(k) is a blind delete: on an absent key it returns success
\* and leaves every collection as it was, where delete_cf("default", k)
\* returns KeyNotFound(k) in the same state.
C28_BlindDelete ==
    DeleteOfAbsent =>
        /\ ret = OkUnit
        /\ db = pre
        /\ delete_cf(pre, DefaultCf, call.key) = Out(pre, KeyNotFound(call.key))

\* C28, where it holds: the delete of an absent key returns success and
\* changes nothing, and with a handle for "default" delete_cf("default", k)
\* returns KeyNotFound(k) in the same state.
C28_WithHandle ==
    DeleteOfAbsent =>
        /\ ret = OkUnit
        /\ db = pre
        /\ cf_exists(pre, DefaultCf) =>
               delete_cf(pre, DefaultCf, call.key) = Out(pre, KeyNotFound(call.key))

\* A key that is absent has been deleted from a default collection that has
\* its handle and holds another key.
C28_WithHandleReached ==
    /\ DeleteOfAbsent
    /\ cf_exists(pre, DefaultCf)
    /\ Len(pre.store[DefaultCf]) >= 1
    /\ ret = OkUnit

\* Both threads have called delete_cf for the same key of the same
\* collection, which held the key when the first of them began.
BothDeletedPresentKey ==
    /\ BothDone("delete_cf")
    /\ SameCollection
    /\ threads[1].key = threads[2].key
    /\ cf_exists(pre, threads[1].cf)
    /\ Has(pre.store[threads[1].cf], threads[1].key)

\* C29: when two threads call delete_cf(c, k) for a key that is present,
\* and no thread writes k, exactly one call returns success and the other
\* returns KeyNotFound(k).
C29_OneRemovalReported ==
    BothDeletedPresentKey =>
        \E t \in Threads :
            /\ threads[t].ret = OkUnit
            /\ \A u \in Threads \ {t} : threads[u].ret = KeyNotFound(threads[u].key)

\* C29, where it holds: the key is gone after both calls, at least one of
\* them returns success, and the other returns success or KeyNotFound(k).
C29_KeyRemoved ==
    BothDeletedPresentKey =>
        /\ ~Has(db.store[threads[1].cf], threads[1].key)
        /\ \E t \in Threads : threads[t].ret = OkUnit
        /\ \A t \in Threads :
              threads[t].ret \in {OkUnit, KeyNotFound(threads[t].key)}

\* One thread has removed the key and the other has found it gone.
C29_KeyRemovedReached ==
    /\ BothDeletedPresentKey
    /\ threads[1].ret = OkUnit
    /\ threads[2].ret = KeyNotFound(threads[2].key)

\* Both threads have called create_cf with the same name, which the engine
\* did not hold when the first of them began.
BothCreatedNewName ==
    /\ BothDone("create_cf")
    /\ SameCollection
    /\ ~HasCollection(pre, threads[1].cf)

\* C30: when two threads call create_cf with the same name that does not
\* exist yet, in every interleaving both calls return success, and
\* afterwards the collection exists and is empty.
C30_BothCreateSucceed ==
    BothCreatedNewName =>
        /\ \A t \in Threads : threads[t].ret = OkUnit
        /\ cf_exists(db, threads[1].cf)
        /\ db.store[threads[1].cf] = <<>>

\* C30, where it holds: afterwards the collection exists and is empty, at
\* least one call returns success, and the other returns success or the
\* engine's error.
C30_CollectionCreated ==
    BothCreatedNewName =>
        /\ cf_exists(db, threads[1].cf)
        /\ db.store[threads[1].cf] = <<>>
        /\ \E t \in Threads : threads[t].ret = OkUnit
        /\ \A t \in Threads : threads[t].ret \in {OkUnit, DbError}

\* Both threads have created the name, one after the other, and both calls
\* have returned success.
C30_CollectionCreatedReached ==
    /\ BothCreatedNewName
    /\ \A t \in Threads : threads[t].ret = OkUnit
    /\ cf_exists(db, threads[1].cf)

====
